---- MODULE Spec2Model ----
(***************************************************************************)
(* Model of the AMN LDA backend (src/main.py): the product catalog query   *)
(* (list_products), the posts feed (list_posts) and the rule-based chatbot *)
(* (chatbot).  The service is stateless: a request is taken while the      *)
(* server is idle, the handler runs to completion, and the response is     *)
(* returned.  The state holds the handler's inputs, the call it made to    *)
(* the document store, the records it obtained and the response.           *)
(*                                                                         *)
(* Text is modelled as a sequence of one-character strings, so that        *)
(* strip(), lower() and substring containment are computed and not         *)
(* assumed.  Prices are in tenths of a currency unit (29.9 is 299).        *)
(* An optional parameter is None (the empty sequence) or Some(v).          *)
(***************************************************************************)
EXTENDS Integers, Sequences, FiniteSets, TLC

VARIABLES op, params, store_call, raised, docs, result

vars == <<op, params, store_call, raised, docs, result>>

\* ------------------------------------------------------------------ bounds

\* Largest `limit` a request carries (the code admits 1..200 and 1..50).
MaxLimit == 4

\* Largest number of records a store collection holds.
MaxStoreDocs == 3

\* Largest number of vocabulary chunks a chat message is built from.
MaxChunks == 3

\* ---------------------------------------------------------------- optional

None == <<>>

Some(v) == <<v>>

\* Python truthiness of an Optional[str]: None and "" are both falsy.
Truthy(o) == o # None /\ o[1] # <<>>

Min(a, b) == IF a <= b THEN a ELSE b

\* s[:n]
Take(s, n) == SubSeq(s, 1, Min(n, Len(s)))

Reverse(s) == [i \in 1..Len(s) |-> s[Len(s) + 1 - i]]

\* -------------------------------------------------------------------- text

Whitespace == {" ", "\t", "\n", "\r"}

UpperChars ==
    <<"A","B","C","D","E","F","G","H","I","J","K","L","M","N","O","P","Q","R",
      "S","T","U","V","W","X","Y","Z","Á","À","Â","Ã","É","Ê","Í","Ó","Ô","Õ",
      "Ú","Ç">>

LowerChars ==
    <<"a","b","c","d","e","f","g","h","i","j","k","l","m","n","o","p","q","r",
      "s","t","u","v","w","x","y","z","á","à","â","ã","é","ê","í","ó","ô","õ",
      "ú","ç">>

LowerChar(c) ==
    IF \E i \in 1..Len(UpperChars) : UpperChars[i] = c
    THEN LowerChars[CHOOSE i \in 1..Len(UpperChars) : UpperChars[i] = c]
    ELSE c

\* str.lower()
lower(s) == [i \in 1..Len(s) |-> LowerChar(s[i])]

RECURSIVE lstrip(_)
lstrip(s) == IF s # <<>> /\ s[1] \in Whitespace THEN lstrip(Tail(s)) ELSE s

RECURSIVE rstrip(_)
rstrip(s) ==
    IF s # <<>> /\ s[Len(s)] \in Whitespace
    THEN rstrip(SubSeq(s, 1, Len(s) - 1))
    ELSE s

\* str.strip()
strip(s) == rstrip(lstrip(s))

\* Python's `w in text` on strings: w is a contiguous substring of text.
Contains(text, w) ==
    \E i \in 0..(Len(text) - Len(w)) : SubSeq(text, i + 1, i + Len(w)) = w

\* ----------------------------------------------------------------- chatbot

kw_orcamento ==
    <<"o","r","c","a","m","e","n","t","o">>

kw_preco ==
    <<"p","r","e","ç","o">>

kw_cotacao ==
    <<"c","o","t","a","c","a","o">>

kw_cotacao_til ==
    <<"c","o","t","a","ç","ã","o">>

kw_horario ==
    <<"h","o","r","a","r","i","o">>

kw_assistencia ==
    <<"a","s","s","i","s","t","e","n","c","i","a">>

kw_visita ==
    <<"v","i","s","i","t","a">>

kw_tecnico_agudo ==
    <<"t","é","c","n","i","c","o">>

kw_tecnico ==
    <<"t","e","c","n","i","c","o">>

\* ["orcamento", "preço", "cotacao", "cotação"]
PricingKeywords == {kw_orcamento, kw_preco, kw_cotacao, kw_cotacao_til}

\* ["horario", "assistencia", "visita", "técnico", "tecnico"]
SchedulingKeywords ==
    {kw_horario, kw_assistencia, kw_visita, kw_tecnico_agudo, kw_tecnico}

\* A plausible slip: the containment test written the wrong way round
\* (`text in w` for `w in text`).
AnyKeywordInReversed(ws, text) == \E w \in ws : Contains(w, text)

\* any(w in text for w in ws)
AnyKeywordIn(ws, text) == \E w \in ws : Contains(text, w)

PricingReply ==
    [reply |-> "Para orçamento rápido, indique produto, dimensões, tiragem e prazo. Podemos gerar uma proposta base automaticamente.",
     suggestions |-> <<"Cartões de visita 500 unid. 350g laminado fosco",
                       "Flyers A5 1000 unid. 170g couché",
                       "Lona 2x1m com ilhoses">>]

SchedulingReply ==
    [reply |-> "Podemos agendar assistência. Indique data/horário preferido e local. Enviaremos convite do Google Calendar.",
     action |-> "schedule_suggest"]

GenericReply ==
    [reply |-> "Olá! Sou o assistente AMN. Posso ajudar com produtos, prazos, orçamentos e assistência técnica.",
     suggestions |-> <<"Ver catálogo", "Pedir orçamento", "Falar com humano">>]

\* A plausible slip: the two keyword groups tested in the other order.
chatbot_scheduling_first(msg) ==
    LET text == lower(strip(IF msg.message # <<>> THEN msg.message ELSE <<>>))
    IN  IF AnyKeywordIn(SchedulingKeywords, text) THEN SchedulingReply
        ELSE IF AnyKeywordIn(PricingKeywords, text) THEN PricingReply
        ELSE GenericReply

\* chatbot(msg): text = (msg.message or "").strip().lower(), then the first
\* keyword group that matches decides the reply.
chatbot(msg) ==
    LET text == lower(strip(IF msg.message # <<>> THEN msg.message ELSE <<>>))
    IN  IF AnyKeywordIn(PricingKeywords, text) THEN PricingReply
        ELSE IF AnyKeywordIn(SchedulingKeywords, text) THEN SchedulingReply
        ELSE GenericReply

\* The messages of the model: concatenations of at most MaxChunks chunks.
msg_quero_um_orcamento ==
    <<"Q","u","e","r","o"," ","u","m"," ","o","r","ç","a","m","e","n","t","o">>

msg_preciso_de_assistencia_tecnica ==
    <<"P","r","e","c","i","s","o"," ","d","e"," ","a","s","s","i","s","t","ê",
      "n","c","i","a"," ","t","é","c","n","i","c","a">>

w_PRECO ==
    <<"P","R","E","Ç","O">>

w_Visita ==
    <<"V","i","s","i","t","a">>

w_ola ==
    <<"O","l","á">>

w_pre ==
    <<"p","r","e">>

w_co ==
    <<"ç","o">>

w_sp ==
    <<" ">>

w_tab ==
    <<"\t">>

Vocabulary ==
    {msg_quero_um_orcamento, msg_preciso_de_assistencia_tecnica,
     kw_orcamento, kw_cotacao_til, kw_horario, kw_tecnico_agudo,
     w_PRECO, w_Visita, w_ola, w_pre, w_co, w_sp, w_tab}

RECURSIVE Concats(_)
Concats(n) ==
    IF n = 0 THEN {<<>>}
    ELSE LET prev == Concats(n - 1)
         IN  prev \cup {m \o c : m \in prev, c \in Vocabulary}

Messages == Concats(MaxChunks)

\* ---------------------------------------------------------- document store

\* The filter of a query is a dictionary: a function from its keys to values.
EmptyDict == <<>>

\* A case-insensitive $regex clause against a text field; the patterns of the
\* model hold no regular-expression metacharacter, so a pattern matches where
\* the field contains it.
RegexMatches(value, clause) ==
    IF clause["$options"] = "i"
    THEN Contains(lower(value), lower(clause["$regex"]))
    ELSE Contains(value, clause["$regex"])

\* One element of an $or list: a dictionary of a single field to a clause.
OrClauseMatches(doc, c) ==
    \A f \in DOMAIN c : f \in DOMAIN doc /\ RegexMatches(doc[f], c[f])

\* A record satisfies a filter when it satisfies every clause of it.
Matches(doc, f) ==
    /\ "category" \in DOMAIN f =>
          "category" \in DOMAIN doc /\ doc["category"] = f["category"]
    /\ "in_stock" \in DOMAIN f =>
          "in_stock" \in DOMAIN doc /\ doc["in_stock"] = f["in_stock"]
    /\ "$or" \in DOMAIN f =>
          \E i \in 1..Len(f["$or"]) : OrClauseMatches(doc, f["$or"][i])
    /\ "price" \in DOMAIN f =>
          /\ "price" \in DOMAIN doc
          /\ "$gte" \in DOMAIN f["price"] => doc["price"] >= f["price"]["$gte"]
          /\ "$lte" \in DOMAIN f["price"] => doc["price"] <= f["price"]["$lte"]

RECURSIVE Select(_, _)
Select(s, f) ==
    IF s = <<>> THEN <<>>
    ELSE (IF Matches(Head(s), f) THEN <<Head(s)>> ELSE <<>>) \o Select(Tail(s), f)

\* The store is None (not configured, unreachable) or Some(contents), the
\* contents a record of collections.  get_documents raises on the former.
Raises(db) == db = None

\* database.get_documents(collection_name, filter_dict, limit) on an available
\* store db: the first `limit` records of the collection that satisfy the
\* filter, in the store's order.
get_documents(db, collection_name, filter_dict, limit) ==
    Take(Select(db[1][collection_name], filter_dict), limit)

\* ----------------------------------------------------------- list_products

demo1_title ==
    <<"C","a","r","t","ã","o"," ","d","e"," ","V","i","s","i","t","a"," ","P",
      "r","e","m","i","u","m">>

demo1_description ==
    <<"I","m","p","r","e","s","s","ã","o"," ","d","e"," ","a","l","t","a"," ",
      "q","u","a","l","i","d","a","d","e"," ","c","o","m"," ","a","c","a","b",
      "a","m","e","n","t","o"," ","f","o","s","c","o","/","U","V",".">>

demo1_category ==
    <<"C","a","r","t","õ","e","s">>

demo2_title ==
    <<"F","l","y","e","r","s"," ","D","o","b","r","á","v","e","i","s">>

demo2_description ==
    <<"P","a","p","e","l"," ","c","o","u","c","h","é"," ","1","7","0","g",",",
      " ","d","o","b","r","a"," ","e","m"," ","3"," ","p","a","i","n","é","i",
      "s",".">>

demo2_category ==
    <<"F","l","y","e","r","s">>

demo3_title ==
    <<"L","o","n","a","s"," ","P","u","b","l","i","c","i","t","á","r","i","a",
      "s">>

demo3_description ==
    <<"I","m","p","r","e","s","s","ã","o"," ","r","e","s","i","s","t","e","n",
      "t","e"," ","p","a","r","a"," ","e","x","t","e","r","i","o","r"," ","c",
      "o","m"," ","i","l","h","o","s","e","s",".">>

demo3_category ==
    <<"G","r","a","n","d","e","s"," ","F","o","r","m","a","t","o","s">>

\* The demo catalog of list_products (prices 29.9, 49.0, 99.0).
demo ==
    <<[_id |-> "demo-1", title |-> demo1_title,
       description |-> demo1_description, price |-> 299,
       category |-> demo1_category, in_stock |-> TRUE],
      [_id |-> "demo-2", title |-> demo2_title,
       description |-> demo2_description, price |-> 490,
       category |-> demo2_category, in_stock |-> TRUE],
      [_id |-> "demo-3", title |-> demo3_title,
       description |-> demo3_description, price |-> 990,
       category |-> demo3_category, in_stock |-> FALSE]>>

\* A plausible slip: in_stock tested for truth (`if in_stock:`), which drops
\* an explicit false.
BuildFilterTruthyStock(p) ==
    LET category_clause ==
            IF Truthy(p.category)
            THEN "category" :> p.category[1] ELSE EmptyDict
        in_stock_clause ==
            IF p.in_stock # None /\ p.in_stock[1]
            THEN "in_stock" :> p.in_stock[1] ELSE EmptyDict
        q_clause ==
            IF Truthy(p.q)
            THEN "$or" :>
                   <<"title" :> ("$regex" :> p.q[1] @@ "$options" :> "i"),
                     "description" :> ("$regex" :> p.q[1] @@ "$options" :> "i"),
                     "category" :> ("$regex" :> p.q[1] @@ "$options" :> "i")>>
            ELSE EmptyDict
        price_filter ==
            (IF p.min_price # None
             THEN "$gte" :> p.min_price[1] ELSE EmptyDict)
            @@ (IF p.max_price # None
                THEN "$lte" :> p.max_price[1] ELSE EmptyDict)
        price_clause ==
            IF p.min_price # None \/ p.max_price # None
            THEN "price" :> price_filter ELSE EmptyDict
    IN  category_clause @@ in_stock_clause @@ q_clause @@ price_clause

\* The Mongo filter list_products builds from its query parameters.
BuildFilter(p) ==
    LET category_clause ==
            IF Truthy(p.category)
            THEN "category" :> p.category[1] ELSE EmptyDict
        in_stock_clause ==
            IF p.in_stock # None
            THEN "in_stock" :> p.in_stock[1] ELSE EmptyDict
        q_clause ==
            IF Truthy(p.q)
            THEN "$or" :>
                   <<"title" :> ("$regex" :> p.q[1] @@ "$options" :> "i"),
                     "description" :> ("$regex" :> p.q[1] @@ "$options" :> "i"),
                     "category" :> ("$regex" :> p.q[1] @@ "$options" :> "i")>>
            ELSE EmptyDict
        price_filter ==
            (IF p.min_price # None
             THEN "$gte" :> p.min_price[1] ELSE EmptyDict)
            @@ (IF p.max_price # None
                THEN "$lte" :> p.max_price[1] ELSE EmptyDict)
        price_clause ==
            IF p.min_price # None \/ p.max_price # None
            THEN "price" :> price_filter ELSE EmptyDict
    IN  category_clause @@ in_stock_clause @@ q_clause @@ price_clause

\* float(d.get("price", 0))
PriceKey(d) == IF "price" \in DOMAIN d THEN d["price"] ELSE 0

\* One step of a stable ascending sort: d goes behind every record of s whose
\* key is not greater.
InsertAsc(s, d) ==
    LET k == Cardinality({i \in 1..Len(s) : PriceKey(s[i]) <= PriceKey(d)})
    IN  SubSeq(s, 1, k) \o <<d>> \o SubSeq(s, k + 1, Len(s))

\* One step of a stable descending sort: d goes behind every record of s whose
\* key is not smaller.
InsertDesc(s, d) ==
    LET k == Cardinality({i \in 1..Len(s) : PriceKey(s[i]) >= PriceKey(d)})
    IN  SubSeq(s, 1, k) \o <<d>> \o SubSeq(s, k + 1, Len(s))

RECURSIVE SortedAsc(_)
\* sorted(docs, key=price)
SortedAsc(s) ==
    IF s = <<>> THEN <<>>
    ELSE InsertAsc(SortedAsc(SubSeq(s, 1, Len(s) - 1)), s[Len(s)])

RECURSIVE SortedDesc(_)
\* sorted(docs, key=price, reverse=True)
SortedDesc(s) ==
    IF s = <<>> THEN <<>>
    ELSE InsertDesc(SortedDesc(SubSeq(s, 1, Len(s) - 1)), s[Len(s)])

\* A plausible slip: descending order obtained by reversing the ascending
\* sort, which also reverses records of equal price.
SortDocsReversing(sort, d) ==
    IF sort = "price_asc" THEN SortedAsc(d)
    ELSE IF sort = "price_desc" THEN Reverse(SortedAsc(d))
    ELSE d

\* The sorting step of list_products.
SortDocs(sort, d) ==
    IF sort = "price_asc" THEN SortedAsc(d)
    ELSE IF sort = "price_desc" THEN SortedDesc(d)
    ELSE d

\* A plausible slip: the demo catalog returned whole.
FallbackProductsUncut(limit) == demo

\* docs = demo[:limit]
FallbackProducts(limit) == Take(demo, limit)

\* A plausible slip: count taken from the data before it is cut to `limit`.
list_products_count_before_cut(p, db) ==
    LET filter_dict == BuildFilter(p)
        obtained == IF Raises(db) THEN FallbackProducts(p.limit)
                    ELSE get_documents(db, "product", filter_dict, p.limit)
        sorted == SortDocs(p.sort, obtained)
    IN  [store_call |-> [collection_name |-> "product",
                         filter_dict |-> filter_dict, limit |-> p.limit],
         raised |-> Raises(db),
         docs |-> obtained,
         result |-> [items |-> sorted,
                     count |-> IF Raises(db) THEN Len(demo)
                               ELSE Len(Select(db[1]["product"], filter_dict))]]

\* A plausible slip: the demo catalog sorted first and cut to `limit` after.
list_products_sort_before_cut(p, db) ==
    LET filter_dict == BuildFilter(p)
        obtained == IF Raises(db) THEN demo
                    ELSE get_documents(db, "product", filter_dict, p.limit)
        sorted == Take(SortDocs(p.sort, obtained), p.limit)
    IN  [store_call |-> [collection_name |-> "product",
                         filter_dict |-> filter_dict, limit |-> p.limit],
         raised |-> Raises(db),
         docs |-> obtained,
         result |-> [items |-> sorted, count |-> Len(sorted)]]

\* list_products with parameters p, against the store db.  The value holds
\* the call made to the store, whether it raised, the records obtained
\* (before sorting) and the response.
list_products(p, db) ==
    LET filter_dict == BuildFilter(p)
        obtained == IF Raises(db) THEN FallbackProducts(p.limit)
                    ELSE get_documents(db, "product", filter_dict, p.limit)
        sorted == SortDocs(p.sort, obtained)
    IN  [store_call |-> [collection_name |-> "product",
                         filter_dict |-> filter_dict, limit |-> p.limit],
         raised |-> Raises(db),
         docs |-> obtained,
         result |-> [items |-> sorted, count |-> Len(sorted)]]

\* -------------------------------------------------------------- list_posts

DemoPosts ==
    <<[_id |-> "n1", title |-> "Nova linha de impressão sustentável",
       excerpt |-> "Apresentamos materiais eco-friendly com a mesma qualidade premium.",
       category |-> "Notícias", date |-> "2025-01-10"],
      [_id |-> "n2", title |-> "Guia de acabamentos para cartões",
       excerpt |-> "Como escolher entre laminação fosca, brilho UV localizado e mais.",
       category |-> "Guias Técnicos", date |-> "2025-02-05"],
      [_id |-> "n3", title |-> "Estúdio 3D para protótipos de embalagens",
       excerpt |-> "Veja os seus produtos em 3D antes de produzir.",
       category |-> "Lançamentos", date |-> "2025-03-18"]>>

\* A plausible slip: the demo posts returned whole.
FallbackPostsUncut(limit) == DemoPosts

\* [...][:limit]
FallbackPosts(limit) == Take(DemoPosts, limit)

\* list_posts with the given limit, against the store db.
list_posts(limit, db) ==
    LET obtained == IF Raises(db) THEN FallbackPosts(limit)
                    ELSE get_documents(db, "blogpost", EmptyDict, limit)
    IN  [store_call |-> [collection_name |-> "blogpost",
                         filter_dict |-> EmptyDict, limit |-> limit],
         raised |-> Raises(db),
         docs |-> obtained,
         result |-> [items |-> obtained]]

\* ------------------------------------------------------------ model inputs

c_Flyers ==
    <<"F","l","y","e","r","s">>

c_Cartoes ==
    <<"C","a","r","t","õ","e","s">>

c_Lonas ==
    <<"L","o","n","a","s">>

t_Flyer_A5 ==
    <<"F","l","y","e","r"," ","A","5">>

t_Cartao ==
    <<"C","a","r","t","ã","o">>

t_Lona ==
    <<"L","o","n","a"," ","2","x","1","m">>

t_Banner ==
    <<"B","a","n","n","e","r">>

d_papel_para_FLYERS ==
    <<"p","a","p","e","l"," ","p","a","r","a"," ","F","L","Y","E","R","S">>

d_couche ==
    <<"c","o","u","c","h","é">>

q_fly ==
    <<"f","l","y">>

\* The product records a store may hold: two of equal price, one without a
\* price, and one that matches "fly" in its description only.
ProductPool ==
    {[_id |-> "p1", title |-> t_Flyer_A5, description |-> d_couche,
      price |-> 490, category |-> c_Flyers, in_stock |-> TRUE],
     [_id |-> "p2", title |-> t_Banner, description |-> d_papel_para_FLYERS,
      price |-> 490, category |-> c_Lonas, in_stock |-> FALSE],
     [_id |-> "p3", title |-> t_Cartao, description |-> d_couche,
      price |-> 299, category |-> c_Cartoes, in_stock |-> TRUE],
     [_id |-> "p4", title |-> t_Lona, description |-> d_couche,
      category |-> c_Lonas, in_stock |-> TRUE]}

PostPool ==
    {[_id |-> "b1", title |-> "Abertura", excerpt |-> "a",
      category |-> "Notícias", date |-> "2025-04-01"],
     [_id |-> "b2", title |-> "Feira", excerpt |-> "b",
      category |-> "Eventos", date |-> "2025-01-20"],
     [_id |-> "b3", title |-> "Papel", excerpt |-> "c",
      category |-> "Guias Técnicos", date |-> "2025-02-11"],
     [_id |-> "b4", title |-> "Tintas", excerpt |-> "d",
      category |-> "Guias Técnicos", date |-> "2025-03-02"],
     [_id |-> "b5", title |-> "Verniz", excerpt |-> "e",
      category |-> "Notícias", date |-> "2025-02-28"]}

\* The sequences of at most n distinct records of a pool.
RECURSIVE Arrangements(_, _)
Arrangements(pool, n) ==
    IF n = 0 THEN {<<>>}
    ELSE LET prev == Arrangements(pool, n - 1)
         IN  prev \cup {Append(s, r) : s \in prev, r \in pool}

Distinct(s) == \A i, j \in 1..Len(s) : i # j => s[i] # s[j]

\* The stores a request may meet: none, or one holding at most MaxStoreDocs
\* distinct records.
ProductStores ==
    {None} \cup
    {Some([product |-> s]) :
        s \in {a \in Arrangements(ProductPool, MaxStoreDocs) : Distinct(a)}}

PostStores ==
    {None} \cup
    {Some([blogpost |-> s]) :
        s \in {a \in Arrangements(PostPool, MaxStoreDocs) : Distinct(a)}}

Limits == 1..MaxLimit

SortModes == {"relevance", "price_asc", "price_desc", "newest", "name_asc"}

ProductParams ==
    [q : {None, Some(<<>>), Some(q_fly)},
     category : {None, Some(<<>>), Some(c_Flyers)},
     min_price : {None, Some(0), Some(490)},
     max_price : {None, Some(490)},
     in_stock : {None, Some(TRUE), Some(FALSE)},
     sort : SortModes,
     limit : Limits]

\* ------------------------------------------------------------------ system

NoCall == <<>>

Init ==
    /\ op = "idle"
    /\ params = <<>>
    /\ store_call = NoCall
    /\ raised = FALSE
    /\ docs = <<>>
    /\ result = <<>>

\* GET /api/products
ListProducts ==
    /\ op = "idle"
    /\ \E p \in ProductParams, db \in ProductStores :
        \E r \in {list_products(p, db)} :
            /\ params' = p
            /\ store_call' = r.store_call
            /\ raised' = r.raised
            /\ docs' = r.docs
            /\ result' = r.result
    /\ op' = "list_products"

\* GET /api/posts
ListPosts ==
    /\ op = "idle"
    /\ \E limit \in Limits, db \in PostStores :
        \E r \in {list_posts(limit, db)} :
            /\ params' = [limit |-> limit]
            /\ store_call' = r.store_call
            /\ raised' = r.raised
            /\ docs' = r.docs
            /\ result' = r.result
    /\ op' = "list_posts"

\* POST /api/chatbot
Chatbot ==
    /\ op = "idle"
    /\ \E m \in Messages :
        /\ params' = [message |-> m]
        /\ result' = chatbot([message |-> m])
    /\ op' = "chatbot"
    /\ UNCHANGED <<store_call, raised, docs>>

\* The response is sent and the server takes the next request.
Return ==
    /\ op # "idle"
    /\ op' = "idle"
    /\ params' = <<>>
    /\ store_call' = NoCall
    /\ raised' = FALSE
    /\ docs' = <<>>
    /\ result' = <<>>

Next == ListProducts \/ ListPosts \/ Chatbot \/ Return

Spec == Init /\ [][Next]_vars

NextCatalog == ListProducts \/ Return

SpecCatalog == Init /\ [][NextCatalog]_vars

NextPosts == ListPosts \/ Return

SpecPosts == Init /\ [][NextPosts]_vars

NextChat == Chatbot \/ Return

SpecChat == Init /\ [][NextChat]_vars

\* ------------------------------------------------------------------ claims

Ids(items) == [i \in 1..Len(items) |-> items[i]["_id"]]

Titles(items) == [i \in 1..Len(items) |-> items[i]["title"]]

\* The price a record is sorted by, as the claims state it: its price, and 0
\* for a record without one.
PriceOrZero(r) == IF "price" \in DOMAIN r THEN r["price"] ELSE 0

Injections(n) ==
    {f \in [1..n -> 1..n] : \A i, j \in 1..n : i # j => f[i] # f[j]}

\* items holds the records of d in price order (descending when desc), the
\* records of equal price in the order they have in d.
StablyOrdered(items, d, desc) ==
    /\ Len(items) = Len(d)
    /\ \E f \in Injections(Len(d)) :
        /\ \A i \in 1..Len(d) : items[i] = d[f[i]]
        /\ \A i, j \in 1..Len(d) :
            i < j =>
              /\ IF desc THEN PriceOrZero(items[i]) >= PriceOrZero(items[j])
                 ELSE PriceOrZero(items[i]) <= PriceOrZero(items[j])
              /\ PriceOrZero(items[i]) = PriceOrZero(items[j]) => f[i] < f[j]

DemoIds == <<"demo-1", "demo-2", "demo-3">>

DemoTitles == <<demo1_title, demo2_title, demo3_title>>

\* C1 as stated: when the get_documents call for "product" fails, the items
\* are the first `limit` demo records in the literal order demo-1, demo-2,
\* demo-3, whatever q, category, min_price, max_price, in_stock and sort are.
C1_FallbackInLiteralOrderForEverySort ==
    (op = "list_products" /\ raised) =>
        /\ Ids(result.items) = Take(DemoIds, params.limit)
        /\ Titles(result.items) = Take(DemoTitles, params.limit)

\* C1 as amended: when the get_documents call for "product" fails, whatever
\* q, category, min_price, max_price and in_stock are, a response with items
\* is returned, and the items are the first `limit` demo records: in the
\* literal order demo-1, demo-2, demo-3 for every sort other than price_desc,
\* and in the reverse of that order for sort=price_desc.
C1_FallbackIsFirstLimitDemoRecords ==
    (op = "list_products" /\ raised) =>
        /\ store_call.collection_name = "product"
        /\ DOMAIN result = {"items", "count"}
        /\ result.items =
              IF params.sort = "price_desc"
              THEN Reverse(Take(demo, params.limit))
              ELSE Take(demo, params.limit)
        /\ Ids(result.items) =
              IF params.sort = "price_desc"
              THEN Reverse(Take(DemoIds, params.limit))
              ELSE Take(DemoIds, params.limit)
        /\ Titles(result.items) =
              IF params.sort = "price_desc"
              THEN Reverse(Take(DemoTitles, params.limit))
              ELSE Take(DemoTitles, params.limit)

\* C1 witness: the store failed on a request that carries filters no demo
\* record satisfies together, with limit 2 and a descending sort.
C1_Witness ==
    /\ op = "list_products" /\ raised
    /\ params.category = Some(c_Flyers) /\ params.q = Some(q_fly)
    /\ params.in_stock = Some(FALSE) /\ params.min_price = Some(490)
    /\ params.sort = "price_desc" /\ params.limit = 2
    /\ Ids(result.items) = <<"demo-2", "demo-1">>

\* C2: in every result of list_products, from the store or from the demo
\* catalog, for every sort and limit, count is the number of items returned.
C2_CountIsNumberOfItems ==
    op = "list_products" => result.count = Len(result.items)

\* C2 witness: a fallback result cut to fewer records than the demo catalog
\* holds, and sorted.
C2_Witness ==
    /\ op = "list_products" /\ raised
    /\ params.limit = 2 /\ params.sort = "price_desc"
    /\ result.count = 2 /\ Len(result.items) = 2

\* The filter f has exactly one clause per supplied parameter of p, each with
\* the value the parameter carries; categoryGiven says when category counts
\* as supplied.
FilterHasClausesOf(f, p, categoryGiven) ==
    /\ DOMAIN f \subseteq {"category", "in_stock", "$or", "price"}
    /\ ("category" \in DOMAIN f) <=> categoryGiven
    /\ "category" \in DOMAIN f => f["category"] = p.category[1]
    /\ ("in_stock" \in DOMAIN f) <=> (p.in_stock # None)
    /\ "in_stock" \in DOMAIN f => f["in_stock"] = p.in_stock[1]
    /\ ("$or" \in DOMAIN f) <=> (p.q # None /\ p.q[1] # <<>>)
    /\ "$or" \in DOMAIN f =>
          /\ Len(f["$or"]) = 3
          /\ \A i \in 1..3 :
                LET field == <<"title", "description", "category">>[i]
                IN  /\ DOMAIN f["$or"][i] = {field}
                    /\ DOMAIN f["$or"][i][field] = {"$regex", "$options"}
                    /\ f["$or"][i][field]["$regex"] = p.q[1]
                    /\ f["$or"][i][field]["$options"] = "i"
    /\ ("price" \in DOMAIN f) <=> (p.min_price # None \/ p.max_price # None)
    /\ "price" \in DOMAIN f =>
          /\ DOMAIN f["price"] \subseteq {"$gte", "$lte"}
          /\ ("$gte" \in DOMAIN f["price"]) <=> (p.min_price # None)
          /\ "$gte" \in DOMAIN f["price"] =>
                f["price"]["$gte"] = p.min_price[1]
          /\ ("$lte" \in DOMAIN f["price"]) <=> (p.max_price # None)
          /\ "$lte" \in DOMAIN f["price"] =>
                f["price"]["$lte"] = p.max_price[1]

\* Every item of a store-backed result is within the price bounds supplied.
ItemsWithinPriceBounds ==
    \A i \in 1..Len(result.items) :
        /\ params.min_price # None =>
              /\ "price" \in DOMAIN result.items[i]
              /\ result.items[i]["price"] >= params.min_price[1]
        /\ params.max_price # None =>
              /\ "price" \in DOMAIN result.items[i]
              /\ result.items[i]["price"] <= params.max_price[1]

\* C3 as stated: the filter passed to the store is the AND of one clause per
\* supplied parameter, the category clause whenever category is given; and
\* every item of a store-backed result has category exactly C when category=C
\* was supplied and a price within the bounds supplied.
C3_CategoryClauseWheneverCategoryGiven ==
    op = "list_products" =>
        /\ FilterHasClausesOf(store_call.filter_dict, params,
                              params.category # None)
        /\ ~raised =>
              /\ ItemsWithinPriceBounds
              /\ params.category # None =>
                    \A i \in 1..Len(result.items) :
                        result.items[i]["category"] = params.category[1]

\* C3 as amended: the filter passed to the store is the AND of one clause per
\* supplied parameter: category equality when category is given and not
\* empty, in_stock equality when in_stock is set (explicit false included), an
\* OR group of case-insensitive $regex clauses for q over title, description
\* and category when q is not empty, and an inclusive price range; every item
\* of a store-backed result has category exactly C when a non-empty category=C
\* was supplied and a price within the bounds supplied.
C3_FilterIsConjunctionOfSuppliedClauses ==
    op = "list_products" =>
        /\ FilterHasClausesOf(store_call.filter_dict, params,
                              params.category # None /\ params.category[1] # <<>>)
        /\ ~raised =>
              /\ ItemsWithinPriceBounds
              /\ (params.category # None /\ params.category[1] # <<>>) =>
                    \A i \in 1..Len(result.items) :
                        result.items[i]["category"] = params.category[1]

\* C3 witness: a store-backed result with a record in it, for a request that
\* supplies every filter parameter, the minimum price being 0.
C3_Witness ==
    /\ op = "list_products" /\ ~raised
    /\ params.category = Some(c_Flyers) /\ params.q = Some(q_fly)
    /\ params.in_stock = Some(TRUE)
    /\ params.min_price = Some(0) /\ params.max_price = Some(490)
    /\ DOMAIN store_call.filter_dict = {"category", "in_stock", "$or", "price"}
    /\ Len(result.items) = 1

\* C4: the items are the obtained records in the order of the sort mode:
\* price_asc a permutation in non-decreasing price, price_desc one in
\* non-increasing price (the reverse of the ascending order when the prices
\* are distinct), a record without a price counting as 0 and records of equal
\* price keeping their arrival order; any other sort leaves the order alone.
C4_ItemsOrderedBySortMode ==
    op = "list_products" =>
        IF params.sort = "price_asc"
        THEN StablyOrdered(result.items, docs, FALSE)
        ELSE IF params.sort = "price_desc"
        THEN /\ StablyOrdered(result.items, docs, TRUE)
             /\ (\A i, j \in 1..Len(docs) :
                    i # j => PriceOrZero(docs[i]) # PriceOrZero(docs[j]))
                => StablyOrdered(Reverse(result.items), docs, FALSE)
        ELSE result.items = docs

\* C4 witness: a descending sort of a record without a price followed by two
\* records of equal price.
C4_Witness ==
    /\ op = "list_products" /\ params.sort = "price_desc"
    /\ Ids(docs) = <<"p4", "p1", "p2">>
    /\ Ids(result.items) = <<"p1", "p2", "p4">>

\* C5: chatbot on "Quero um orçamento" returns the pricing reply with its
\* three suggestions.
C5_QueroUmOrcamentoIsPricing ==
    (op = "chatbot" /\ params.message = msg_quero_um_orcamento) =>
        /\ result = PricingReply
        /\ Len(result.suggestions) = 3

\* C6: chatbot on "Preciso de assistência técnica" returns the scheduling
\* reply, with action "schedule_suggest" and no suggestions.
C6_AssistenciaTecnicaIsScheduling ==
    (op = "chatbot" /\ params.message = msg_preciso_de_assistencia_tecnica) =>
        /\ result = SchedulingReply
        /\ result.action = "schedule_suggest"
        /\ "suggestions" \notin DOMAIN result

HasKeyword(ws, message) ==
    \E w \in ws : Contains(lower(strip(message)), w)

\* C7: a message whose trimmed, lower-cased text contains a pricing keyword
\* and a scheduling keyword gets the pricing reply, with suggestions and
\* without an action; the scheduling reply is returned only when a scheduling
\* keyword is contained and no pricing keyword is.
C7_PricingWinsOverScheduling ==
    op = "chatbot" =>
        /\ (HasKeyword(PricingKeywords, params.message)
            /\ HasKeyword(SchedulingKeywords, params.message)) =>
              /\ result = PricingReply
              /\ "suggestions" \in DOMAIN result
              /\ "action" \notin DOMAIN result
        /\ result = SchedulingReply =>
              /\ HasKeyword(SchedulingKeywords, params.message)
              /\ ~HasKeyword(PricingKeywords, params.message)

\* C7 witness: a scheduling keyword ahead of a pricing keyword, both in upper
\* or mixed case, answered with the pricing reply.
C7_Witness ==
    /\ op = "chatbot"
    /\ params.message = w_Visita \o w_sp \o w_PRECO
    /\ result = PricingReply

\* C8: every message gets one of the three fixed replies, and the empty
\* message and every whitespace-only message get the generic reply with its
\* three suggestions.
C8_AlwaysOneOfThreeReplies ==
    op = "chatbot" =>
        /\ result \in {PricingReply, SchedulingReply, GenericReply}
        /\ (\A i \in 1..Len(params.message) : params.message[i] \in Whitespace)
           => /\ result = GenericReply
              /\ result.suggestions =
                    <<"Ver catálogo", "Pedir orçamento", "Falar com humano">>

\* C8 witness: a message of white space only, answered with the generic reply.
C8_Witness ==
    /\ op = "chatbot"
    /\ params.message = w_sp \o w_tab \o w_sp
    /\ result = GenericReply

\* C9: when the get_documents call for "blogpost" fails, the items are the
\* first min(limit, 3) demo posts in the order n1, n2, n3 and a response is
\* returned; when it succeeds, the items are the store's records in the
\* store's order.
C9_PostsFallbackOrStoreOrder ==
    op = "list_posts" =>
        /\ store_call.collection_name = "blogpost"
        /\ store_call.filter_dict = EmptyDict
        /\ DOMAIN result = {"items"}
        /\ raised =>
              /\ result.items = Take(DemoPosts, params.limit)
              /\ Len(result.items) = Min(params.limit, 3)
              /\ Ids(result.items) = Take(<<"n1", "n2", "n3">>, params.limit)
        /\ ~raised => result.items = docs

\* C9 witness: the store failed on a request for two posts.
C9_Witness ==
    /\ op = "list_posts" /\ raised /\ params.limit = 2
    /\ Ids(result.items) = <<"n1", "n2">>

\* C10: the sort is applied to the records as obtained, already cut to
\* `limit`, on both sources; on the fallback path the items are always the
\* first `limit` demo records, min(limit, 3) of them, so that limit=1 with
\* sort=price_desc returns demo-1.
C10_SortAfterTruncation ==
    op = "list_products" =>
        /\ Len(docs) <= params.limit
        /\ Len(result.items) = Len(docs)
        /\ {result.items[i] : i \in 1..Len(result.items)}
              = {docs[i] : i \in 1..Len(docs)}
        /\ raised =>
              /\ docs = Take(demo, params.limit)
              /\ Len(result.items) = Min(params.limit, 3)
              /\ {result.items[i]["_id"] : i \in 1..Len(result.items)}
                    = {DemoIds[i] : i \in 1..Min(params.limit, 3)}
              /\ (params.limit = 1 /\ params.sort = "price_desc")
                    => Ids(result.items) = <<"demo-1">>

\* C10 witness: the store failed on a request for the single most expensive
\* record, and the cheapest demo record came back.
C10_Witness ==
    /\ op = "list_products" /\ raised
    /\ params.limit = 1 /\ params.sort = "price_desc"
    /\ Ids(result.items) = <<"demo-1">>

====
